---- MODULE Spec2Model ----
(***************************************************************************)
(* The pomodoro state machine of porsmo (src/porsmo/pomodoro.rs):          *)
(* PomoState, its command handler handle_command, the Alertable            *)
(* predicates, and the loop that owns the state.  Durations and instants   *)
(* are natural numbers (clock units).  Instant::now() is the variable      *)
(* `now`; every operator that reads the clock takes the instant `t` it     *)
(* reads.  Option<T> is a sequence of length at most one.                  *)
(***************************************************************************)
EXTENDS Integers, Sequences, FiniteSets, TLC

\* ------------------------------------------------------------------ bounds
MaxTime == 4        \* the clock runs from 0 to MaxTime
MaxRound == 8       \* no phase advance beyond this round number
MaxDelay == 2       \* delays tried between two commands in composed calls
MaxSeq == 4         \* longest command sequence tried in composed calls

\* ----------------------------------------------------------------- Option
None == << >>
Some(x) == << x >>

\* ------------------------------------------------------- Counter (porsmo::counter)
Counter_default == [accumulated |-> 0, running |-> FALSE, last_resume_instant |-> None]

Counter_from(d) == [accumulated |-> d, running |-> FALSE, last_resume_instant |-> None]

Counter_started(c) == c.running

Counter_elapsed(c, t) ==
    IF c.running THEN c.accumulated + (t - c.last_resume_instant[1])
    ELSE c.accumulated

Counter_start(c, t) ==
    IF c.running THEN c
    ELSE [c EXCEPT !.running = TRUE, !.last_resume_instant = Some(t)]

Counter_stop(c, t) ==
    IF c.running
    THEN [accumulated |-> c.accumulated + (t - c.last_resume_instant[1]),
          running |-> FALSE, last_resume_instant |-> None]
    ELSE c

Counter_toggle(c, t) == IF c.running THEN Counter_stop(c, t) ELSE Counter_start(c, t)

\* ------------------------------------------- Session, PomoConfig (porsmo::pomodoro)
Modes == {"Work", "Break", "LongBreak"}

PhaseOfRound(n) ==
    IF n % 8 = 7 THEN "LongBreak"
    ELSE IF n % 2 = 1 THEN "Break"
    ELSE "Work"

Session_default == [mode |-> "Work", number |-> 0]

Session_next(s) == [mode |-> PhaseOfRound(s.number + 1), number |-> s.number + 1]

current_target(m, config) ==
    CASE m = "Work" -> config.work_duration
      [] m = "Break" -> config.break_duration
      [] m = "LongBreak" -> config.long_break_duration

\* The configurations tried: each phase's target is the shortest, the middle and
\* the longest of the three in one of them.
Configs ==
    { [work_duration |-> 2, break_duration |-> 1, long_break_duration |-> 3],
      [work_duration |-> 1, break_duration |-> 2, long_break_duration |-> 1],
      [work_duration |-> 3, break_duration |-> 1, long_break_duration |-> 2] }

\* ------------------------------------------------------------------ Command
Commands ==
    {"Quit", "Yes", "No", "Enter", "Pause", "Resume", "Toggle", "Skip", "Unknown"}

\* --------------------------------------------------------------- PomoState
Running(counter) == [tag |-> "Running", counter |-> counter]

Skip(elapsed) == [tag |-> "Skip", elapsed |-> elapsed]

\* Faulty variant of the default mode: the fresh counter is never started.
PomoStateMode_default_NotStarted(t) == Running(Counter_default)

PomoStateMode_default(t) == Running(Counter_start(Counter_default, t))

PomoState_from(config, t) ==
    [mode |-> PomoStateMode_default(t), session |-> Session_default,
     config |-> config, alert |-> FALSE]

target(self) == current_target(self.session.mode, self.config)

\* Faulty variant of elpased: a pending skip reads as no time elapsed.
elpased_SkipReadsZero(self, t) ==
    IF self.mode.tag = "Running" THEN Counter_elapsed(self.mode.counter, t)
    ELSE 0

elpased(self, t) ==
    IF self.mode.tag = "Running" THEN Counter_elapsed(self.mode.counter, t)
    ELSE self.mode.elapsed

\* Faulty variant of should_alert: the alert is due at the target, not past it.
should_alert_AtTarget(self, t) == elpased(self, t) >= target(self)

should_alert(self, t) == elpased(self, t) > target(self)

alerted(self) == self.alert

set_alert(self, a) == [self EXCEPT !.alert = a]

pomodoro_alert_message(next_mode) ==
    CASE next_mode = "Work" -> <<"Your break ended!", "Time for some work">>
      [] next_mode = "Break" -> <<"Pomodoro ended!", "Time for a short break">>
      [] next_mode = "LongBreak" ->
            <<"Pomodoro 4 sessions complete!", "Time for a long break">>

\* Faulty variant of alert: the message is picked for the current phase.
alert_CurrentPhase(self) == pomodoro_alert_message(self.session.mode)

\* Alertable::alert: the (title, message) pair handed to the dispatcher.
alert(self) == pomodoro_alert_message(Session_next(self.session).mode)

\* ---------------------------------------- CounterUIState::handle_command, by arm
\* Faulty variants of the Quit arm: the skip is cancelled into a counter restarted from
\* zero; Quit ends the loop in either mode.
handle_Quit_Restarts(self, t) ==
    IF self.mode.tag = "Skip"
    THEN LET counter == Counter_start(Counter_default, t)
         IN Some([self EXCEPT !.mode = Running(counter)])
    ELSE None

handle_Quit_Always(self, t) == None

\* Faulty variant of the Quit arm: the cancelled skip's counter is rebuilt from
\* the frozen time but not started.
handle_Quit_NotStarted(self, t) ==
    IF self.mode.tag = "Skip"
    THEN LET counter == Counter_from(self.mode.elapsed)
         IN Some([self EXCEPT !.mode = Running(counter)])
    ELSE None

handle_Quit(self, t) ==
    IF self.mode.tag = "Skip"
    THEN LET counter == Counter_start(Counter_from(self.mode.elapsed), t)
         IN Some([self EXCEPT !.mode = Running(counter)])
    ELSE None

\* Faulty variants of the No arm: cancelling the skip re-arms the alert; No outside Skip
\* falls through to the Quit arm's None.
handle_No_ClearsAlert(self, t) ==
    IF self.mode.tag = "Skip"
    THEN LET counter == Counter_start(Counter_from(self.mode.elapsed), t)
         IN Some([self EXCEPT !.mode = Running(counter), !.alert = FALSE])
    ELSE Some(self)

handle_No_EndsWhenRunning(self, t) ==
    IF self.mode.tag = "Skip"
    THEN LET counter == Counter_start(Counter_from(self.mode.elapsed), t)
         IN Some([self EXCEPT !.mode = Running(counter)])
    ELSE None

handle_No(self, t) ==
    IF self.mode.tag = "Skip"
    THEN LET counter == Counter_start(Counter_from(self.mode.elapsed), t)
         IN Some([self EXCEPT !.mode = Running(counter)])
    ELSE Some(self)

\* Faulty variants of the Enter arm: the Running arm forgets `alert: false`; its guard is
\* dropped; its guard is strict; it applies next() twice.
handle_Enter_KeepsAlert(self, t) ==
    IF /\ self.mode.tag = "Running"
       /\ Counter_elapsed(self.mode.counter, t)
             >= current_target(self.session.mode, self.config)
    THEN LET counter == Counter_start(Counter_default, t)
         IN Some([self EXCEPT !.mode = Running(counter),
                              !.session = Session_next(self.session)])
    ELSE IF self.mode.tag = "Skip"
    THEN LET counter == Counter_start(Counter_default, t)
         IN Some([self EXCEPT !.mode = Running(counter),
                              !.session = Session_next(self.session),
                              !.alert = FALSE])
    ELSE Some(self)

handle_Enter_Unguarded(self, t) ==
    LET counter == Counter_start(Counter_default, t)
    IN Some([self EXCEPT !.mode = Running(counter),
                         !.session = Session_next(self.session),
                         !.alert = FALSE])

handle_Enter_StrictGuard(self, t) ==
    IF /\ self.mode.tag = "Running"
       /\ Counter_elapsed(self.mode.counter, t)
             > current_target(self.session.mode, self.config)
    THEN LET counter == Counter_start(Counter_default, t)
         IN Some([self EXCEPT !.mode = Running(counter),
                              !.session = Session_next(self.session),
                              !.alert = FALSE])
    ELSE IF self.mode.tag = "Skip"
    THEN LET counter == Counter_start(Counter_default, t)
         IN Some([self EXCEPT !.mode = Running(counter),
                              !.session = Session_next(self.session),
                              !.alert = FALSE])
    ELSE Some(self)

\* Faulty variant of the Enter arm: in Running mode Enter advances only once the
\* phase's alert has fired.
handle_Enter_GuardsOnAlert(self, t) ==
    IF self.mode.tag = "Running" /\ self.alert
    THEN LET counter == Counter_start(Counter_default, t)
         IN Some([self EXCEPT !.mode = Running(counter),
                              !.session = Session_next(self.session),
                              !.alert = FALSE])
    ELSE IF self.mode.tag = "Skip"
    THEN LET counter == Counter_start(Counter_default, t)
         IN Some([self EXCEPT !.mode = Running(counter),
                              !.session = Session_next(self.session),
                              !.alert = FALSE])
    ELSE Some(self)

handle_Enter_NextTwice(self, t) ==
    IF /\ self.mode.tag = "Running"
       /\ Counter_elapsed(self.mode.counter, t)
             >= current_target(self.session.mode, self.config)
    THEN LET counter == Counter_start(Counter_default, t)
         IN Some([self EXCEPT !.mode = Running(counter),
                              !.session = Session_next(Session_next(self.session)),
                              !.alert = FALSE])
    ELSE IF self.mode.tag = "Skip"
    THEN LET counter == Counter_start(Counter_default, t)
         IN Some([self EXCEPT !.mode = Running(counter),
                              !.session = Session_next(self.session),
                              !.alert = FALSE])
    ELSE Some(self)

handle_Enter(self, t) ==
    IF /\ self.mode.tag = "Running"
       /\ Counter_elapsed(self.mode.counter, t)
             >= current_target(self.session.mode, self.config)
    THEN LET counter == Counter_start(Counter_default, t)
         IN Some([self EXCEPT !.mode = Running(counter),
                              !.session = Session_next(self.session),
                              !.alert = FALSE])
    ELSE IF self.mode.tag = "Skip"
    THEN LET counter == Counter_start(Counter_default, t)
         IN Some([self EXCEPT !.mode = Running(counter),
                              !.session = Session_next(self.session),
                              !.alert = FALSE])
    ELSE Some(self)

\* Faulty variant of the Yes arm: the confirmed skip restarts the counter but keeps the
\* session.
handle_Yes_KeepsSession(self, t) ==
    IF self.mode.tag = "Skip"
    THEN LET counter == Counter_start(Counter_default, t)
         IN Some([self EXCEPT !.mode = Running(counter), !.alert = FALSE])
    ELSE Some(self)

\* Faulty variant of the Yes arm: the confirmed skip starts the session over.
handle_Yes_ResetsSession(self, t) ==
    IF self.mode.tag = "Skip"
    THEN LET counter == Counter_start(Counter_default, t)
         IN Some([self EXCEPT !.mode = Running(counter),
                              !.session = Session_default,
                              !.alert = FALSE])
    ELSE Some(self)

handle_Yes(self, t) ==
    IF self.mode.tag = "Skip"
    THEN LET counter == Counter_start(Counter_default, t)
         IN Some([self EXCEPT !.mode = Running(counter),
                              !.session = Session_next(self.session),
                              !.alert = FALSE])
    ELSE Some(self)

\* Faulty variant of the Pause arm: the paused counter is rebuilt from the accumulated
\* time alone, dropping the time since the last resume.
handle_Pause_DropsLive(self, t) ==
    IF self.mode.tag = "Running"
    THEN LET counter == Counter_from(self.mode.counter.accumulated)
         IN Some([self EXCEPT !.mode = Running(counter)])
    ELSE Some(self)

handle_Pause(self, t) ==
    IF self.mode.tag = "Running"
    THEN LET counter == Counter_stop(self.mode.counter, t)
         IN Some([self EXCEPT !.mode = Running(counter)])
    ELSE Some(self)

\* Faulty variant of the Resume arm: the resume instant is taken anew even when
\* the counter is already running.
handle_Resume_Rebases(self, t) ==
    IF self.mode.tag = "Running"
    THEN LET counter == [self.mode.counter EXCEPT !.running = TRUE,
                                                  !.last_resume_instant = Some(t)]
         IN Some([self EXCEPT !.mode = Running(counter)])
    ELSE Some(self)

handle_Resume(self, t) ==
    IF self.mode.tag = "Running"
    THEN LET counter == Counter_start(self.mode.counter, t)
         IN Some([self EXCEPT !.mode = Running(counter)])
    ELSE Some(self)

handle_Toggle(self, t) ==
    IF self.mode.tag = "Running"
    THEN LET counter == Counter_toggle(self.mode.counter, t)
         IN Some([self EXCEPT !.mode = Running(counter)])
    ELSE Some(self)

\* Faulty variant of the Skip arm: the frozen value is the accumulated time, without the
\* time since the last resume.
handle_Skip_FreezesAccumulated(self, t) ==
    IF self.mode.tag = "Running"
    THEN LET elapsed == self.mode.counter.accumulated
         IN Some([self EXCEPT !.mode = Skip(elapsed)])
    ELSE Some(self)

\* Faulty variant of the Skip arm: the session advances when the skip is
\* requested, before it is confirmed.
handle_Skip_AdvancesEarly(self, t) ==
    IF self.mode.tag = "Running"
    THEN LET elapsed == Counter_elapsed(self.mode.counter, t)
         IN Some([self EXCEPT !.mode = Skip(elapsed),
                              !.session = Session_next(self.session)])
    ELSE Some(self)

handle_Skip(self, t) ==
    IF self.mode.tag = "Running"
    THEN LET elapsed == Counter_elapsed(self.mode.counter, t)
         IN Some([self EXCEPT !.mode = Skip(elapsed)])
    ELSE Some(self)

handle_command(self, command, t) ==
    CASE command = "Quit" -> handle_Quit(self, t)
      [] command = "No" -> handle_No(self, t)
      [] command = "Enter" -> handle_Enter(self, t)
      [] command = "Yes" -> handle_Yes(self, t)
      [] command = "Pause" -> handle_Pause(self, t)
      [] command = "Resume" -> handle_Resume(self, t)
      [] command = "Toggle" -> handle_Toggle(self, t)
      [] command = "Skip" -> handle_Skip(self, t)
      [] OTHER -> Some(self)

\* ------------------------------------------------- Stopwatch (crate::stopwatch)
Stopwatch_new(start_time, elapsed) == [start_time |-> start_time, elapsed |-> elapsed]

Stopwatch_default(t) == Stopwatch_new(Some(t), 0)

Stopwatch_started(sw) == sw.start_time # None

Stopwatch_elapsed(sw, t) ==
    IF sw.start_time # None THEN sw.elapsed + (t - sw.start_time[1])
    ELSE sw.elapsed

Stopwatch_start(sw, t) ==
    IF sw.start_time = None THEN [sw EXCEPT !.start_time = Some(t)] ELSE sw

Stopwatch_stop(sw, t) ==
    IF sw.start_time # None
    THEN Stopwatch_new(None, sw.elapsed + (t - sw.start_time[1]))
    ELSE sw

Stopwatch_toggle(sw, t) ==
    IF sw.start_time # None THEN Stopwatch_stop(sw, t) ELSE Stopwatch_start(sw, t)

\* ------------------------------------------- the legacy loop: UIMode and pomodoro
UIMode_Skip(elapsed) == [tag |-> "Skip", elapsed |-> elapsed]

UIMode_Running(stopwatch) == [tag |-> "Running", stopwatch |-> stopwatch]

\* One command handled by the body of pomodoro's loop: None for `break`, else
\* Some of the loop's ui_mode and session after it.
pomodoro_step(ui, sess, config, command, t) ==
    IF ui.tag = "Skip"
    THEN CASE command \in {"Quit", "No"} ->
                Some([ui_mode |-> UIMode_Running(Stopwatch_new(Some(t), ui.elapsed)),
                      session |-> sess])
           [] command \in {"Enter", "Yes"} ->
                Some([ui_mode |-> UIMode_Running(Stopwatch_default(t)),
                      session |-> Session_next(sess)])
           [] OTHER -> Some([ui_mode |-> ui, session |-> sess])
    ELSE LET stopwatch == ui.stopwatch
             elapsed == Stopwatch_elapsed(stopwatch, t)
             target_time == current_target(sess.mode, config)
         IN CASE command = "Quit" -> None
              [] command = "Enter" /\ elapsed >= target_time ->
                   Some([ui_mode |-> UIMode_Running(Stopwatch_default(t)),
                         session |-> Session_next(sess)])
              [] command = "Pause" ->
                   Some([ui_mode |-> UIMode_Running(Stopwatch_stop(stopwatch, t)),
                         session |-> sess])
              [] command = "Resume" ->
                   Some([ui_mode |-> UIMode_Running(Stopwatch_start(stopwatch, t)),
                         session |-> sess])
              [] command = "Toggle" ->
                   Some([ui_mode |-> UIMode_Running(Stopwatch_toggle(stopwatch, t)),
                         session |-> sess])
              [] command = "Skip" ->
                   Some([ui_mode |-> UIMode_Skip(elapsed), session |-> sess])
              [] OTHER -> Some([ui_mode |-> ui, session |-> sess])

\* ------------------------------------------------------- the loop owning the state
VARIABLES
    now,         \* the monotonic clock, Instant::now()
    state,       \* the PomoState the loop owns
    pc,          \* "poll": waiting for an event; "alert": event handled, alert
                 \* check pending; "done": the loop has ended
    cmd,         \* this iteration's event: Some(command), or None for a timeout
    prev,        \* the state this iteration handed to handle_command
    fired,       \* alert dispatches since the last phase advance
    visited,     \* the phases the session has been in, oldest first
    beforeSkip,  \* Some([self, at]): the state and instant at which the pending
                 \* (or just resolved) skip was requested
    dispatched,  \* what the latest alert check handed to the dispatcher:
                 \* Some(<<title, message>>), or None if it dispatched nothing
    ranFor,      \* the time, within the current phase, that has passed while the
                 \* mode was Running and its counter was in running status
    ui_mode,     \* the legacy loop, fed the same events: its UIMode,
    session,     \* its session,
    broke        \* and whether it has left its loop

legacy == <<ui_mode, session, broke>>

vars ==
    <<now, state, pc, cmd, prev, fired, visited, beforeSkip, dispatched, ranFor,
      ui_mode, session, broke>>

Init ==
    /\ now = 0
    /\ state \in {PomoState_from(config, 0) : config \in Configs}
    /\ pc = "poll"
    /\ cmd = None
    /\ prev = state
    /\ fired = 0
    /\ visited = <<Session_default.mode>>
    /\ beforeSkip = None
    /\ dispatched = None
    /\ ranFor = 0
    /\ ui_mode = UIMode_Running(Stopwatch_default(0))
    /\ session = Session_default
    /\ broke = FALSE

\* The legacy loop's iteration on command c, with the same config and clock.
LegacyCommand(c) ==
    IF broke THEN UNCHANGED legacy
    ELSE LET l == pomodoro_step(ui_mode, session, state.config, c, now)
         IN IF l = None
            THEN broke' = TRUE /\ UNCHANGED <<ui_mode, session>>
            ELSE /\ ui_mode' = l[1].ui_mode
                 /\ session' = l[1].session
                 /\ UNCHANGED broke

\* The poll blocks: the clock advances while the loop waits for an event.
TimePasses ==
    /\ pc = "poll"
    /\ now < MaxTime
    /\ now' = now + 1
    /\ ranFor' = IF state.mode.tag = "Running" /\ Counter_started(state.mode.counter)
                 THEN ranFor + 1
                 ELSE ranFor
    /\ UNCHANGED <<state, pc, cmd, prev, fired, visited, beforeSkip, dispatched>>
    /\ UNCHANGED legacy

\* The poll times out: no command this iteration.
Timeout ==
    /\ pc = "poll"
    /\ pc' = "alert"
    /\ cmd' = None
    /\ prev' = state
    /\ dispatched' = None
    /\ UNCHANGED <<now, state, fired, visited, beforeSkip, ranFor>>
    /\ UNCHANGED legacy

\* The poll returns a command: it is fed to handle_command; None ends the loop.
Command(c) ==
    /\ pc = "poll"
    /\ LET r == handle_command(state, c, now)
       IN IF r = None
          THEN /\ pc' = "done"
               /\ UNCHANGED <<state, fired, visited, beforeSkip, ranFor>>
          ELSE /\ r[1].session.number <= MaxRound
               /\ pc' = "alert"
               /\ state' = r[1]
               /\ IF r[1].session # state.session
                  THEN /\ fired' = 0
                       /\ visited' = Append(visited, r[1].session.mode)
                       /\ ranFor' = 0
                  ELSE UNCHANGED <<fired, visited, ranFor>>
               /\ beforeSkip' =
                     IF state.mode.tag = "Running"
                     THEN IF r[1].mode.tag = "Skip"
                          THEN Some([self |-> state, at |-> now])
                          ELSE None
                     ELSE beforeSkip
    /\ cmd' = Some(c)
    /\ prev' = state
    /\ dispatched' = None
    /\ LegacyCommand(c)
    /\ UNCHANGED now

\* After the event: dispatch the alert once if it is due, and end the iteration.
AlertCheck ==
    /\ pc = "alert"
    /\ IF should_alert(state, now) /\ ~alerted(state)
       THEN /\ dispatched' = Some(alert(state))
            /\ state' = set_alert(state, TRUE)
            /\ fired' = fired + 1
       ELSE /\ dispatched' = None
            /\ UNCHANGED <<state, fired>>
    /\ pc' = "poll"
    /\ cmd' = None
    /\ prev' = state'
    /\ UNCHANGED <<now, visited, beforeSkip, ranFor>>
    /\ UNCHANGED legacy

Next ==
    \/ TimePasses
    \/ Timeout
    \/ \E c \in Commands : Command(c)
    \/ AlertCheck

Spec == Init /\ [][Next]_vars

\* ------------------------------------------------------------ shared vocabulary
\* This iteration handled command c (handle_command has returned or ended the loop).
Handled(c) == pc \in {"alert", "done"} /\ cmd = Some(c)

\* The (mode, command) pairs that advance the phase, read at the command's instant.
IsAdvance(self, c, t) ==
    \/ /\ self.mode.tag = "Running"
       /\ c = "Enter"
       /\ Counter_elapsed(self.mode.counter, t) >= target(self)
    \/ /\ self.mode.tag = "Skip"
       /\ c \in {"Yes", "Enter"}

\* A fresh started counter: Counter::default().start() at instant t.
IsFreshStarted(c, t) ==
    /\ Counter_started(c)
    /\ Counter_elapsed(c, t) = 0
    /\ c.accumulated = 0

\* ----------------------------------------------------------------------- C1
\* C1: over any interleaving of ticks, time advances and commands, the alert
\* dispatcher is invoked at most once between two consecutive phase advances
\* (and at most once before the first one); a dispatch is always recorded in
\* the alerted flag, so nothing but an advance re-arms it.
C1_AlertAtMostOncePerPhase ==
    /\ fired <= 1
    /\ fired = 1 => alerted(state)

\* An alert fired, then Skip was pressed and cancelled, and a later tick found
\* the overrun still standing without dispatching again.
C1_Witness ==
    /\ pc = "poll"
    /\ fired = 1
    /\ state.mode.tag = "Running"
    /\ should_alert(state, now)
    /\ beforeSkip # None
    /\ beforeSkip[1].self.alert
    /\ now > beforeSkip[1].at

\* ----------------------------------------------------------------------- C2
\* C2: handle_command sets alerted to false on every phase advance (Enter in
\* Running with elapsed >= target, Yes or Enter in Skip) and leaves it as it
\* was on every other (mode, command) pair; so no command sets it to true.
C2_AlertedResetExactlyOnAdvance ==
    \A c \in Commands :
        (pc = "alert" /\ cmd = Some(c)) =>
            IF IsAdvance(prev, c, now)
            THEN state.alert = FALSE
            ELSE state.alert = prev.alert

\* Enter advanced an overrun phase whose alert had fired, clearing the flag.
C2_Witness ==
    /\ Handled("Enter")
    /\ prev.mode.tag = "Running"
    /\ prev.alert
    /\ ~state.alert
    /\ state.session # prev.session

\* ----------------------------------------------------------------------- C3
\* C3: from any Running state, Skip followed by Yes or by Enter advances the
\* session exactly once (to session.next() of the session Skip was pressed
\* in), sets alerted to false and leaves mode Running with a fresh started
\* counter at zero elapsed; both for the two calls composed after any delay
\* and for the loop's runs with ticks in between.
C3_SkipThenYesAdvancesOnce ==
    /\ state.mode.tag = "Running" =>
          \A c \in {"Yes", "Enter"}, d \in 0..MaxDelay :
              LET s1 == handle_command(state, "Skip", now)[1]
                  s2 == handle_command(s1, c, now + d)[1]
              IN /\ s2.session = Session_next(state.session)
                 /\ s2.session.number = state.session.number + 1
                 /\ s2.alert = FALSE
                 /\ s2.mode.tag = "Running"
                 /\ IsFreshStarted(s2.mode.counter, now + d)
                 /\ s2.config = state.config
    /\ \A c \in {"Yes", "Enter"} :
          (Handled(c) /\ prev.mode.tag = "Skip") =>
              /\ beforeSkip # None
              /\ state.session = Session_next(beforeSkip[1].self.session)
              /\ state.session.number = beforeSkip[1].self.session.number + 1
              /\ state.alert = FALSE
              /\ state.mode.tag = "Running"
              /\ IsFreshStarted(state.mode.counter, now)

\* Yes confirmed a skip that was requested earlier, from a paused counter whose
\* phase had already alerted.
C3_Witness ==
    /\ Handled("Yes")
    /\ prev.mode.tag = "Skip"
    /\ beforeSkip # None
    /\ beforeSkip[1].self.alert
    /\ ~Counter_started(beforeSkip[1].self.mode.counter)
    /\ now > beforeSkip[1].at
    /\ state.session.number = beforeSkip[1].self.session.number + 1

\* ----------------------------------------------------------------------- C4
\* C4: from any Running state, Skip followed by No or by Quit yields a Running
\* state whose elapsed() at the instant of the cancel equals the elapsed value
\* at the instant Skip was pressed, however long the skip was pending, with
\* session, config and alerted as they were; both for the two calls composed
\* after any delay and for the loop's runs with ticks in between (where the
\* cancel itself leaves alerted as it finds it).
C4_SkipThenNoRestoresElapsed ==
    /\ state.mode.tag = "Running" =>
          \A c \in {"No", "Quit"}, d \in 0..MaxDelay :
              LET s1 == handle_command(state, "Skip", now)[1]
                  s2 == handle_command(s1, c, now + d)[1]
              IN /\ s2.mode.tag = "Running"
                 /\ elpased(s2, now + d) = elpased(state, now)
                 /\ s2.session = state.session
                 /\ s2.config = state.config
                 /\ s2.alert = state.alert
    /\ \A c \in {"No", "Quit"} :
          (Handled(c) /\ prev.mode.tag = "Skip") =>
              /\ pc = "alert"
              /\ beforeSkip # None
              /\ state.mode.tag = "Running"
              /\ elpased(state, now)
                    = elpased(beforeSkip[1].self, beforeSkip[1].at)
              /\ state.session = beforeSkip[1].self.session
              /\ state.config = beforeSkip[1].self.config
              /\ state.alert = prev.alert

\* No cancelled a skip requested earlier from a counter that was running with
\* time both accumulated and live.
C4_Witness ==
    /\ Handled("No")
    /\ prev.mode.tag = "Skip"
    /\ beforeSkip # None
    /\ now > beforeSkip[1].at
    /\ Counter_started(beforeSkip[1].self.mode.counter)
    /\ beforeSkip[1].self.mode.counter.accumulated > 0
    /\ elpased(beforeSkip[1].self, beforeSkip[1].at)
          > beforeSkip[1].self.mode.counter.accumulated
    /\ elpased(state, now) = elpased(beforeSkip[1].self, beforeSkip[1].at)

\* ----------------------------------------------------------------------- C5
\* C5: in Running mode, Enter while elapsed < target is a no-op: the state
\* after equals the state before in every field (mode and counter with its
\* running status and accumulated time, session, config, alerted).
C5_EnterUnderTargetIsNoOp ==
    ( /\ Handled("Enter")
      /\ prev.mode.tag = "Running"
      /\ Counter_elapsed(prev.mode.counter, now) < target(prev) )
    => (pc = "alert" /\ state = prev)

\* Enter arrived under the target with a paused counter holding some time.
C5_Witness ==
    /\ Handled("Enter")
    /\ prev.mode.tag = "Running"
    /\ ~Counter_started(prev.mode.counter)
    /\ Counter_elapsed(prev.mode.counter, now) > 0
    /\ Counter_elapsed(prev.mode.counter, now) < target(prev)
    /\ state = prev

\* ----------------------------------------------------------------------- C6
\* C6: in Running mode, Enter while elapsed >= target (elapsed equal to the
\* target and a paused counter included) advances the phase: session becomes
\* session.next(), mode becomes Running with a fresh started counter at zero
\* elapsed, alerted becomes false, config stays.
C6_EnterAtTargetAdvances ==
    ( /\ Handled("Enter")
      /\ prev.mode.tag = "Running"
      /\ Counter_elapsed(prev.mode.counter, now) >= target(prev) )
    => /\ pc = "alert"
       /\ state.session = Session_next(prev.session)
       /\ state.session.number = prev.session.number + 1
       /\ state.mode.tag = "Running"
       /\ IsFreshStarted(state.mode.counter, now)
       /\ state.alert = FALSE
       /\ state.config = prev.config

\* Enter advanced a paused counter whose elapsed was exactly the target.
C6_Witness ==
    /\ Handled("Enter")
    /\ prev.mode.tag = "Running"
    /\ ~Counter_started(prev.mode.counter)
    /\ Counter_elapsed(prev.mode.counter, now) = target(prev)
    /\ state.session = Session_next(prev.session)

\* ----------------------------------------------------------------------- C7
PauseResumeToggle == {"Pause", "Resume", "Toggle"}

\* The states that some sequence of at most n Pause, Resume and Toggle commands,
\* all fed at the one instant t, leads to from a state of S.
RECURSIVE AfterUpTo(_, _, _)
AfterUpTo(S, n, t) ==
    IF n = 0 THEN S
    ELSE AfterUpTo(
             S \cup {handle_command(s, c, t)[1] : s \in S, c \in PauseResumeToggle},
             n - 1, t)

\* C7: every finite sequence of Pause, Resume and Toggle applied in Running
\* mode with no time advance between or during them leaves counter.elapsed()
\* as it was, whether the counter started out running or paused; and so does
\* each such command the loop handles.
C7_PauseResumeToggleKeepElapsed ==
    /\ state.mode.tag = "Running" =>
          \A s2 \in AfterUpTo({state}, MaxSeq, now) :
              /\ s2.mode.tag = "Running"
              /\ Counter_elapsed(s2.mode.counter, now)
                    = Counter_elapsed(state.mode.counter, now)
              /\ s2.session = state.session
    /\ \A c \in PauseResumeToggle :
          (Handled(c) /\ prev.mode.tag = "Running") =>
              /\ state.mode.tag = "Running"
              /\ Counter_elapsed(state.mode.counter, now)
                    = Counter_elapsed(prev.mode.counter, now)

\* Pause stopped a running counter that held both accumulated and live time.
C7_Witness ==
    /\ Handled("Pause")
    /\ prev.mode.tag = "Running"
    /\ Counter_started(prev.mode.counter)
    /\ prev.mode.counter.accumulated > 0
    /\ Counter_elapsed(prev.mode.counter, now) > prev.mode.counter.accumulated
    /\ ~Counter_started(state.mode.counter)
    /\ Counter_elapsed(state.mode.counter, now)
          = Counter_elapsed(prev.mode.counter, now)

\* ----------------------------------------------------------------------- C8
\* The cycle of phases, first to last.
CyclePhases ==
    <<"Work", "Break", "Work", "Break", "Work", "Break", "Work", "LongBreak">>

\* next() applied n times to s.
RECURSIVE NextTimes(_, _)
NextTimes(s, n) == IF n = 0 THEN s ELSE Session_next(NextTimes(s, n - 1))

\* C8: from the initial session (Work, round 0), next() applied 8 times visits
\* Work, Break, Work, Break, Work, Break, Work, LongBreak in that order and is
\* then back at Work with the round number 8 higher; each next() raises the
\* round number by exactly 1; and the session the program holds is the initial
\* one with next() applied once per phase it has left, the previews of the
\* upcoming phase changing nothing.
C8_NextCyclesThroughEightPhases ==
    /\ \A i \in 0..7 : NextTimes(Session_default, i).mode = CyclePhases[i + 1]
    /\ NextTimes(Session_default, 8)
          = [mode |-> "Work", number |-> Session_default.number + 8]
    /\ Session_next(state.session).number = state.session.number + 1
    /\ \A i \in 1..Len(visited) : visited[i] = CyclePhases[((i - 1) % 8) + 1]
    /\ state.session = NextTimes(Session_default, Len(visited) - 1)
    /\ state.session.number = Len(visited) - 1

\* The program has gone once round the cycle: eight advances, the last out of
\* LongBreak, and it is in Work again at round 8.
C8_Witness ==
    /\ Len(visited) = 9
    /\ visited[8] = "LongBreak"
    /\ state.session = [mode |-> "Work", number |-> 8]

\* ----------------------------------------------------------------------- C9
\* The (mode, command) pairs the transition table does not list.
Unlisted(tag, c) ==
    \/ c = "Unknown"
    \/ tag = "Running" /\ c \in {"Yes", "No"}
    \/ tag = "Skip" /\ c \in {"Pause", "Resume", "Toggle", "Skip"}

\* A well-formed PomoState.
IsPomoState(s) ==
    /\ DOMAIN s = {"mode", "session", "config", "alert"}
    /\ s.mode.tag \in {"Running", "Skip"}
    /\ s.session.mode \in Modes
    /\ s.session.number \in Nat
    /\ s.config \in Configs
    /\ s.alert \in BOOLEAN

\* C9 as stated: every command the loop has handled returned a state, and
\* every unlisted command returned the input state.
C9_Original ==
    \A c \in Commands :
        Handled(c) =>
            /\ pc = "alert"
            /\ Unlisted(prev.mode.tag, c) => state = prev

\* C9, amended: the transition function is defined for every state and every
\* command and returns a state for every pair but Quit in Running mode, which
\* returns None; every command the table does not list for the current mode
\* (Unknown in either mode; Yes and No in Running; Pause, Resume, Toggle and
\* Skip in Skip) returns a state equal to the input state in all fields.
C9_TotalAndUnlistedAreNoOps ==
    /\ \A c \in Commands :
          LET r == handle_command(state, c, now)
          IN /\ (r = None) <=> (c = "Quit" /\ state.mode.tag = "Running")
             /\ r # None => (Len(r) = 1 /\ IsPomoState(r[1]))
             /\ Unlisted(state.mode.tag, c) => r = Some(state)
    /\ \A c \in Commands :
          (Handled(c) /\ Unlisted(prev.mode.tag, c)) =>
              (pc = "alert" /\ state = prev)

\* No arrived in Running mode with a paused counter holding time, after an
\* alert, and changed nothing.
C9_Witness ==
    /\ Handled("No")
    /\ prev.mode.tag = "Running"
    /\ ~Counter_started(prev.mode.counter)
    /\ prev.mode.counter.accumulated > 0
    /\ prev.alert
    /\ state = prev

\* ---------------------------------------------------------------------- C10
\* C10: Quit ends the program exactly when the mode is Running: in Running
\* mode Quit yields no successor state, whatever the counter, session and
\* alerted; in Skip mode Quit never ends the program and cancels the skip; no
\* other command ends it, so it cannot end while a skip is pending.
C10_QuitEndsExactlyInRunning ==
    /\ (handle_command(state, "Quit", now) = None) <=> (state.mode.tag = "Running")
    /\ (Handled("Quit") /\ prev.mode.tag = "Running") => pc = "done"
    /\ (Handled("Quit") /\ prev.mode.tag = "Skip") =>
          (pc = "alert" /\ state.mode.tag = "Running")
    /\ pc = "done" =>
          (cmd = Some("Quit") /\ prev.mode.tag = "Running" /\ state.mode.tag # "Skip")

\* Quit ended the program in a later round, with the counter paused and the
\* phase's alert fired.
C10_Witness ==
    /\ pc = "done"
    /\ cmd = Some("Quit")
    /\ prev.mode.tag = "Running"
    /\ ~Counter_started(prev.mode.counter)
    /\ prev.alert
    /\ prev.session.number > 0

\* ---------------------------------------------------------------------- C11
\* Elapsed strictly greater than the target, read from the live counter in
\* Running and from the frozen value in Skip.
Overrun(self, t) ==
    LET e == IF self.mode.tag = "Running"
             THEN Counter_elapsed(self.mode.counter, t)
             ELSE self.mode.elapsed
    IN e > current_target(self.session.mode, self.config)

\* C11: at every tick's alert check the dispatcher is invoked if and only if
\* the elapsed time is strictly past the target and alerted is false, and then
\* alerted is true; so right after any check an overrun implies alerted: an
\* overrun standing at a check is alerted no later than that check.
C11_DispatchIffDueAndNotAlerted ==
    [][pc = "alert" =>
          LET due == Overrun(state, now) /\ ~state.alert
          IN /\ (dispatched' # None) <=> due
             /\ fired' = IF due THEN fired + 1 ELSE fired
             /\ due => state'.alert
             /\ ~due => state' = state
             /\ Overrun(state', now') => state'.alert]_vars

\* A check has just dispatched for an overrun that arose while the timer ran.
C11_Witness ==
    /\ pc = "poll"
    /\ dispatched # None
    /\ state.alert
    /\ fired = 1
    /\ state.mode.tag = "Running"
    /\ Overrun(state, now)

\* ---------------------------------------------------------------------- C12
\* The (title, message) pair the claim gives for an upcoming phase.
MessageFor(phase) ==
    CASE phase = "Work" -> <<"Your break ended!", "Time for some work">>
      [] phase = "Break" -> <<"Pomodoro ended!", "Time for a short break">>
      [] phase = "LongBreak" ->
            <<"Pomodoro 4 sessions complete!", "Time for a long break">>

\* C12: whenever the alert is dispatched its (title, message) pair is the one
\* for the upcoming phase session.next().mode, never the one for the current
\* phase, and dispatching leaves the session as it was (the session still is
\* the initial one advanced once per phase left).
C12_AlertNamesUpcomingPhase ==
    dispatched # None =>
        /\ dispatched[1] = MessageFor(Session_next(state.session).mode)
        /\ dispatched[1] = MessageFor(CyclePhases[((state.session.number + 1) % 8) + 1])
        /\ dispatched[1] # MessageFor(state.session.mode)
        /\ state.session = NextTimes(Session_default, Len(visited) - 1)

\* The alert at the end of the fourth work phase announced the long break.
C12_Witness ==
    /\ dispatched = Some(<<"Pomodoro 4 sessions complete!", "Time for a long break">>)
    /\ state.session = [mode |-> "Work", number |-> 6]
    /\ state.alert

\* ---------------------------------------------------------------------- C13
\* C13: while the mode is Skip the state's elapsed value does not move with
\* time: after any number of ticks and any time spent in Skip mode it equals
\* the counter's elapsed at the instant Skip was pressed, at this and at every
\* later instant, and so should_alert keeps the value it had on entry.
C13_SkipFreezesElapsed ==
    state.mode.tag = "Skip" =>
        /\ beforeSkip # None
        /\ LET captured == Counter_elapsed(beforeSkip[1].self.mode.counter,
                                           beforeSkip[1].at)
           IN \A d \in 0..MaxDelay :
                 /\ elpased(state, now + d) = captured
                 /\ should_alert(state, now + d) <=> (captured > target(state))
        /\ state.session = beforeSkip[1].self.session

\* A skip requested from a running counter is still pending two clock units
\* and at least one tick later.
C13_Witness ==
    /\ pc = "alert"
    /\ cmd = None
    /\ state.mode.tag = "Skip"
    /\ beforeSkip # None
    /\ Counter_started(beforeSkip[1].self.mode.counter)
    /\ now >= beforeSkip[1].at + 2
    /\ state.mode.elapsed > 0

\* ---------------------------------------------------------------------- C14
\* The phase the claim gives for a round number.
PhaseByRound(n) ==
    IF n % 8 \in {0, 2, 4, 6} THEN "Work"
    ELSE IF n % 8 \in {1, 3, 5} THEN "Break"
    ELSE "LongBreak"

\* C14: in every state reachable by any sequence of commands and ticks the
\* phase is the one the round number determines (Work at 0, 2, 4, 6 mod 8,
\* Break at 1, 3, 5, LongBreak at 7), and no step lowers the round number.
C14_PhaseFollowsRoundNumber ==
    /\ [](state.session.mode = PhaseByRound(state.session.number))
    /\ [][state'.session.number >= state.session.number]_vars

\* Enter has just advanced the fourth work phase into the long break.
C14_Witness ==
    /\ Handled("Enter")
    /\ prev.mode.tag = "Running"
    /\ prev.session = [mode |-> "Work", number |-> 6]
    /\ state.session = [mode |-> "LongBreak", number |-> 7]

\* ---------------------------------------------------------------------- C15
\* C15: over any interleaving of time advances with Pause, Resume and Toggle
\* in Running mode within one phase, counter.elapsed() equals the total time
\* the counter spent in running status (time passing while paused adds
\* nothing; that total never decreases within a phase, so neither does
\* elapsed); Resume on a running counter and Pause on a stopped one change
\* nothing, the resume instant included; and no such command lowers elapsed.
C15_ElapsedIsTimeSpentRunning ==
    /\ state.mode.tag = "Running" =>
          Counter_elapsed(state.mode.counter, now) = ranFor
    /\ (Handled("Resume") /\ prev.mode.tag = "Running"
           /\ Counter_started(prev.mode.counter)) => state = prev
    /\ (Handled("Pause") /\ prev.mode.tag = "Running"
           /\ ~Counter_started(prev.mode.counter)) => state = prev
    /\ \A c \in PauseResumeToggle :
          (Handled(c) /\ prev.mode.tag = "Running") =>
              Counter_elapsed(state.mode.counter, now)
                  >= Counter_elapsed(prev.mode.counter, now)

\* Resume arrived on a counter already running again after a pause, in the
\* first phase, with time both accumulated and live and some time spent paused.
C15_Witness ==
    /\ Handled("Resume")
    /\ Len(visited) = 1
    /\ beforeSkip = None
    /\ prev.mode.tag = "Running"
    /\ Counter_started(prev.mode.counter)
    /\ prev.mode.counter.accumulated > 0
    /\ Counter_elapsed(prev.mode.counter, now) > prev.mode.counter.accumulated
    /\ now > ranFor
    /\ state = prev

\* ---------------------------------------------------------------------- C16
\* C16: no command and no tick changes the config, and only the advance
\* transitions (Enter in Running with elapsed >= target, Yes or Enter in Skip)
\* change the session: Pause, Resume, Toggle, Skip, No, Quit in Skip, Enter
\* under the target and Unknown leave session and config as they were.
C16_ConfigFixedSessionOnlyAdvances ==
    [][/\ state'.config = state.config
       /\ state'.session # state.session =>
             /\ pc = "poll"
             /\ \E c \in Commands : cmd' = Some(c) /\ IsAdvance(state, c, now)
       /\ \A c \in Commands :
             (pc = "poll" /\ pc' = "alert" /\ cmd' = Some(c)
                 /\ ~IsAdvance(state, c, now)) =>
                 state'.session = state.session]_vars

\* Skip was requested in a later round, after an alert, and left session and
\* config alone.
C16_Witness ==
    /\ Handled("Skip")
    /\ prev.mode.tag = "Running"
    /\ prev.session.number > 0
    /\ prev.alert
    /\ state.mode.tag = "Skip"
    /\ state.session = prev.session
    /\ state.config = prev.config

\* ---------------------------------------------------------------------- C17
\* The shape the claim gives the state built from config at instant t.
IsInitialState(self, config, t) ==
    /\ self.mode.tag = "Running"
    /\ Counter_started(self.mode.counter)
    /\ Counter_elapsed(self.mode.counter, t) = 0
    /\ self.mode.counter.accumulated = 0
    /\ self.session = [mode |-> "Work", number |-> 0]
    /\ self.alert = FALSE
    /\ self.config = config

\* C17: the initial state built from a config is mode Running with a fresh
\* counter that is started and has zero elapsed, session (Work, round 0),
\* alerted false and config equal to the supplied config: the program starts
\* in such a state, and the constructor yields one for every config at every
\* instant.
C17_InitialState ==
    /\ \E config \in Configs : IsInitialState(state, config, now)
    /\ [](\A config \in Configs :
             IsInitialState(PomoState_from(config, now), config, now))

\* The program at its start, built from the config with the longest work phase.
C17_Witness ==
    /\ now = 0
    /\ pc = "poll"
    /\ cmd = None
    /\ ranFor = 0
    /\ visited = <<"Work">>
    /\ state.config.work_duration = 3
    /\ IsInitialState(state, state.config, now)

C19_CancelledSkipRuns ==
    /\ state.mode.tag = "Running" =>
          \A c \in {"No", "Quit"}, d \in 0..MaxDelay :
              LET s1 == handle_command(state, "Skip", now)[1]
                  s2 == handle_command(s1, c, now + d)[1]
              IN /\ s2.mode.tag = "Running"
                 /\ Counter_started(s2.mode.counter)
    /\ \A c \in {"No", "Quit"} :
          (Handled(c) /\ prev.mode.tag = "Skip") =>
              /\ pc = "alert"
              /\ state.mode.tag = "Running"
              /\ Counter_started(state.mode.counter)
              /\ \A d \in 0..MaxDelay :
                    Counter_elapsed(state.mode.counter, now + d)
                        = prev.mode.elapsed + d
              /\ ui_mode.tag = "Running"
              /\ Stopwatch_started(ui_mode.stopwatch)

\* Quit cancelled a skip that had been requested from a paused counter with
\* time on it: the counter runs again.
C19_Witness ==
    /\ Handled("Quit")
    /\ prev.mode.tag = "Skip"
    /\ beforeSkip # None
    /\ ~Counter_started(beforeSkip[1].self.mode.counter)
    /\ beforeSkip[1].self.mode.counter.accumulated > 0
    /\ now > beforeSkip[1].at
    /\ Counter_started(state.mode.counter)

\* ---------------------------------------------------------------------- C20
\* C20: in Running mode, whenever an alert is due (elapsed > target) Enter
\* advances the phase, so in no reachable Running state is an alert due, or
\* has one fired for the current phase, while Enter is a no-op; and Enter
\* advances with no alert due exactly in the states whose elapsed equals the
\* target, where a phase can be left without any alert dispatched for it.
C20_EnterAdvancesWheneverAlertDue ==
    state.mode.tag = "Running" =>
        LET e == Counter_elapsed(state.mode.counter, now)
            tg == current_target(state.session.mode, state.config)
            r == handle_command(state, "Enter", now)
            advances == r # None /\ r[1].session = Session_next(state.session)
            noop == r = Some(state)
        IN /\ advances \/ noop
           /\ ~(advances /\ noop)
           /\ e > tg => advances
           /\ should_alert(state, now) => advances
           /\ (state.alert \/ fired = 1) => advances
           /\ (advances /\ ~should_alert(state, now)) <=> (e = tg)

\* Enter advanced a running phase whose elapsed was exactly the target and for
\* which no alert had been dispatched.
C20_Witness ==
    /\ Handled("Enter")
    /\ prev.mode.tag = "Running"
    /\ Counter_started(prev.mode.counter)
    /\ Counter_elapsed(prev.mode.counter, now) = target(prev)
    /\ ~should_alert(prev, now)
    /\ ~prev.alert
    /\ state.session = Session_next(prev.session)
    /\ fired = 0

====
